---- MODULE Spec2Model ----
(***************************************************************************)
(* State-machine model of UltiSnips' SnippetManager                        *)
(* (python/UltiSnips/__init__.py): the stack of active snippet instances,  *)
(* the cached VimState, and the public operations the editor calls.        *)
(*                                                                         *)
(* The tabstop tree (text_objects.SnippetInstance), the diff engine        *)
(* (_diff) and the Vim bridge (_vim) are collaborators of this file; what  *)
(* the manager needs of them is modelled by the operators marked           *)
(* "collaborator" below.                                                   *)
(***************************************************************************)
EXTENDS Integers, Sequences, FiniteSets, TLC

VARIABLES
    csnippets,          \* SnippetManager._csnippets: stack, bottom first
    ctab,               \* SnippetManager._ctab: <<>> (None) or <<tabstop number>>
    ignore_movements,   \* SnippetManager._ignore_movements
    poss,               \* VimState._poss: lines of the remembered positions
    lvb,                \* VimState._lvb/_lvb_len: <<>> (None) or <<snapshot>>
    visual,             \* VisualContentPreserver._text
    cursor,             \* _vim.buf.cursor
    call,               \* a function of this file called on its own: its arguments
    ret                 \* what that call returned

vars == <<csnippets, ctab, ignore_movements, poss, lvb, visual, cursor, call, ret>>

(***************************************************************************)
(* Bounds of the model.                                                    *)
(***************************************************************************)
MaxLine == 0        \* buffer lines are 0..MaxLine
MaxCol == 2         \* columns are 0..MaxCol
MaxDepth == 2       \* expansions are nested at most this deep
MaxTab == 1         \* tabstop numbers are 0..MaxTab
MaxBefore == 5      \* the text before the cursor has at most this many characters
MaxTrigger == 3     \* a trigger has 1..MaxTrigger characters
MaxDefs == 3        \* the provider returns at most this many definitions
MaxFiletypes == 2   \* the buffer has 1..MaxFiletypes filetypes

(***************************************************************************)
(* Program constants.                                                      *)
(***************************************************************************)
PossMaxLen == 5     \* deque(maxlen=5)

(***************************************************************************)
(* Geometry (collaborator: UltiSnips.geometry.Position).                   *)
(***************************************************************************)
Positions == [line : 0..MaxLine, col : 0..MaxCol]

Pos(l, c) == [line |-> l, col |-> c]

PosLE(a, b) == a.line < b.line \/ (a.line = b.line /\ a.col <= b.col)

PosLT(a, b) == PosLE(a, b) /\ a # b

PosMax(a, b) == IF PosLE(a, b) THEN b ELSE a

Modes == {"i", "n", "s"}

Ids == 1..(MaxDepth + 1)

Last(s) == s[Len(s)]

Front(s) == SubSeq(s, 1, Len(s) - 1)

Reverse(s) == [i \in 1..Len(s) |-> s[Len(s) + 1 - i]]

IdsOf(cs) == [i \in 1..Len(cs) |-> cs[i].id]

(***************************************************************************)
(* The manager's fields as one record, threaded through the methods, with  *)
(* the edit the user has just made (edit) and a log of what the running    *)
(* operation has done so far.                                              *)
(***************************************************************************)
EmptyLog ==
    [popped |-> <<>>,       \* instances removed by _current_snippet_is_done, in order
     forced |-> <<>>,       \* those of them removed because they had no tabstop left
     replay |-> <<>>,       \* <<[target, against, top, es]>> once replay_user_edits ran
     push |-> <<>>,         \* <<[id, under, start, end, visual]>> once an instance was appended
     sel |-> <<>>,          \* <<[id, no, depth]>> once select_next_tab gave a tabstop
     writes |-> <<>>,       \* values written to the operation's g:ulti_*_res flag
     failure |-> FALSE,     \* _handle_failure was called
     checked |-> FALSE,     \* _check_if_still_inside_snippet has finished
     attempted |-> FALSE,   \* _try_expand or _jump was entered
     ambiguous |-> FALSE,   \* several definitions matched and none was chosen
     sinkfault |-> FALSE,   \* _vim.command raised while writing the flag
     scratch |-> FALSE,     \* new_scratch_buffer was called
     remembered |-> FALSE,  \* remember_buffer took a snapshot
     trimmed |-> FALSE,     \* _jump removed the whitespace before the cursor
     exc |-> "none"]        \* "none", "raised" (in flight), "caught", "swallowed"

\* what _jump finds when it has selected a tabstop: s, the definition of the
\* top instance has option s; before_ws, the text before the cursor ends in
\* whitespace; after_empty, nothing follows the cursor on the line
Lines == [s : BOOLEAN, before_ws : BOOLEAN, after_empty : BOOLEAN]

PlainLine == [s |-> FALSE, before_ws |-> FALSE, after_empty |-> FALSE]

Self ==
    [cs |-> csnippets, ctab |-> ctab, ign |-> ignore_movements, poss |-> poss,
     lvb |-> lvb, vis |-> visual, cur |-> cursor, edit |-> <<>>,
     line |-> PlainLine, log |-> EmptyLog]

Raise(m) == [m EXCEPT !.log.exc = "raised"]

Raised(m) == m.log.exc = "raised"


(***************************************************************************)
(* VimState (lines 371-402).                                               *)
(***************************************************************************)
DequeAppend(q, x) ==
    IF Len(q) < PossMaxLen THEN Append(q, x) ELSE Append(Tail(q), x)

\* self._poss.append(_VimPosition())
RememberPosition(m) == [m EXCEPT !.poss = DequeAppend(m.poss, m.cur.line)]

\* self._lvb = _vim.buf[to.start.line:to.end.line+1]; remember_position()
RememberBuffer(m, to) ==
    RememberPosition(
        [m EXCEPT !.lvb = <<[of |-> to.id, first |-> to.start.line,
                             last |-> to.end.line]>>,
                  !.edit = <<>>,
                  !.log.remembered = TRUE])

\* VimState(): a fresh deque and _lvb = None
NewVimState(m) == [m EXCEPT !.poss = <<>>, !.lvb = <<>>]

(***************************************************************************)
(* Collaborators: the tabstop tree.                                        *)
(***************************************************************************)
Contains(inst, p) == PosLE(inst.start, p) /\ PosLE(p, inst.end)

\* SnippetInstance.select_next_tab: one of the instance's tabstops, or None
\* (<<>>).  A freshly launched instance always has a first tabstop to offer.
SelectNextTab(inst, backwards, fresh) ==
    {<<n>> : n \in 0..MaxTab} \cup (IF fresh THEN {} ELSE {<<>>})

\* where _vim.select(ctab.start, ctab.end) leaves the cursor: inside the instance
TabPositions(inst) == {p \in Positions : Contains(inst, p)}

Clamp(c) == IF c < 0 THEN 0 ELSE IF c > MaxCol THEN MaxCol ELSE c

ShiftStart(p, e) ==
    IF p.line = e.at.line /\ e.at.col < p.col
    THEN Pos(p.line, Clamp(p.col + e.d)) ELSE p

ShiftEnd(p, e) ==
    IF p.line = e.at.line /\ (e.at.col < p.col \/ (e.d = 1 /\ e.at.col = p.col))
    THEN Pos(p.line, Clamp(p.col + e.d)) ELSE p

RECURSIVE ApplyEdits(_, _)
ApplyEdits(inst, es) ==
    IF es = <<>> THEN inst
    ELSE ApplyEdits([inst EXCEPT !.start = ShiftStart(@, es[1]),
                                 !.end = ShiftEnd(@, es[1])], Tail(es))

\* SnippetInstance.replay_user_edits on the stack entry at index target: the
\* edits move the spans of that instance and of the instances nested in it,
\* which are the stack entries above it.
ReplayUserEdits(cs, target, es) ==
    [i \in 1..Len(cs) |-> IF i >= target THEN ApplyEdits(cs[i], es) ELSE cs[i]]

\* guess_edit, falling back to diff: the edit script between the remembered
\* snapshot and the buffer
GuessOrDiff(m) == m.edit

\* Snippet.launch: the instance spans [start, bodyEnd]; the instances it is
\* inserted into grow to hold it.
Launch(cs, id, start, end, bodyEnd) ==
    [stack |-> [i \in 1..Len(cs) |->
                    IF Contains(cs[i], start) /\ Contains(cs[i], end)
                    THEN [cs[i] EXCEPT !.end = PosMax(@, bodyEnd)] ELSE cs[i]],
     si |-> [id |-> id, start |-> start, end |-> bodyEnd]]

(***************************************************************************)
(* SnippetManager: private methods.                                        *)
(***************************************************************************)
\* _cs (lines 802-806): the top of the stack, <<>> for None
Cs(m) == IF Len(m.cs) = 0 THEN <<>> ELSE <<m.cs[Len(m.cs)]>>

\* the index self._csnippets[0] refers to (lines 545, 584, 590, 591, 778)
Csnippets0_asTop(m) == Len(m.cs)

Csnippets0(m) == 1

\* _current_snippet_is_done (lines 637-638)
CurrentSnippetIsDone_asPopFirst(m) ==
    [m EXCEPT !.cs = Tail(@), !.log.popped = Append(@, m.cs[1])]

CurrentSnippetIsDone(m) ==
    [m EXCEPT !.cs = Front(@), !.log.popped = Append(@, Last(m.cs))]

\* _reinit (lines 624-626)
Reinit_asClearingVimState(m) ==
    [m EXCEPT !.ctab = <<>>, !.ign = FALSE, !.lvb = <<>>, !.poss = <<>>]

Reinit(m) == [m EXCEPT !.ctab = <<>>, !.ign = FALSE]

\* _check_if_still_inside_snippet (lines 628-635)
RECURSIVE CheckIfStillInsideSnippet(_)
CheckIfStillInsideSnippet_asOnce(m) ==
    IF Cs(m) # <<>> /\ ~Contains(Cs(m)[1], m.cur)
    THEN Reinit(CurrentSnippetIsDone(m))
    ELSE m

CheckIfStillInsideSnippet(m) ==
    IF Cs(m) # <<>> /\ ~Contains(Cs(m)[1], m.cur)
    THEN CheckIfStillInsideSnippet(Reinit(CurrentSnippetIsDone(m)))
    ELSE m

\* leaving_buffer (lines 594-601)
RECURSIVE PopAll(_)
PopAll(m) == IF Len(m.cs) > 0 THEN PopAll(CurrentSnippetIsDone(m)) ELSE m

LeavingBuffer_asPopOne(m) ==
    Reinit(IF Len(m.cs) > 0 THEN CurrentSnippetIsDone(m) ELSE m)

LeavingBuffer(m) == Reinit(PopAll(m))

\* err_to_scratch_buffer (lines 20-36): the except branch
ErrToScratchBuffer_asNoUnwind(m) ==
    IF Raised(m)
    THEN [m EXCEPT !.log.scratch = TRUE, !.log.exc = "caught"]
    ELSE m

ErrToScratchBuffer(m) ==
    IF Raised(m)
    THEN [LeavingBuffer(m) EXCEPT !.log.scratch = TRUE, !.log.exc = "caught"]
    ELSE m

\* _vim.command("let g:ulti_..._res = val"); raises when fault holds
Command(m, val, fault) ==
    IF fault THEN Raise([m EXCEPT !.log.sinkfault = TRUE])
    ELSE [m EXCEPT !.log.writes = Append(@, val)]

\* _handle_failure (lines 667-720)
HandleFailure(m) == [m EXCEPT !.log.failure = TRUE]


\* _jump, lines 645-652: the whitespace before the cursor is removed from the
\* line (re.match(r'(.*?)\s+$', before) finds trailing whitespace)
TrimsWhitespace_asWheneverS(line) == line.s

TrimsWhitespace(line) == line.s /\ line.after_empty /\ line.before_ws

\* _jump, the branch taken when select_next_tab gave tabstop t (lines 644-656):
\* the tabstop is selected, and the instance is done when it is tabstop 0
JumpSelected_asKeepOnZero(m, t, fault) ==
    LET top == Cs(m)[1]
        m1 == [m EXCEPT !.ctab = t,
                        !.log.trimmed = TrimsWhitespace(m.line),
                        !.log.sel = <<[id |-> top.id, no |-> t[1],
                                       depth |-> Len(m.cs)]>>]
    IN  IF fault = "select"
        THEN {[m |-> Raise(m1), jumped |-> FALSE]}
        ELSE {[m |-> [m1 EXCEPT !.cur = p], jumped |-> TRUE] : p \in TabPositions(top)}

JumpSelected(m, t, fault) ==
    LET top == Cs(m)[1]
        m1 == [m EXCEPT !.ctab = t,
                        !.log.trimmed = TrimsWhitespace(m.line),
                        !.log.sel = <<[id |-> top.id, no |-> t[1],
                                       depth |-> Len(m.cs)]>>]
    IN  IF fault = "select"
        THEN {[m |-> Raise(m1), jumped |-> FALSE]}
        ELSE {[m |-> IF t[1] = 0
                     THEN CurrentSnippetIsDone([m1 EXCEPT !.cur = p])
                     ELSE [m1 EXCEPT !.cur = p],
               jumped |-> TRUE] : p \in TabPositions(top)}

\* _jump (lines 640-665); yields the possible [m, jumped] outcomes
Jump_asNoRetry(m, backwards, fresh, fault) ==
    LET m0 == [m EXCEPT !.log.attempted = TRUE]
        outcomes ==
            IF Cs(m0) = <<>>
            THEN {[m |-> m0, jumped |-> FALSE]}
            ELSE UNION {
                IF t # <<>>
                THEN JumpSelected(m0, t, fault)
                ELSE {[m |-> CurrentSnippetIsDone(
                                 [m0 EXCEPT !.ctab = <<>>,
                                            !.log.forced = Append(@, Cs(m0)[1].id)]),
                       jumped |-> FALSE]}
                : t \in SelectNextTab(Cs(m0)[1], backwards, fresh)}
    IN  {IF o.jumped THEN [o EXCEPT !.m = RememberPosition(o.m)] ELSE o
         : o \in outcomes}

RECURSIVE Jump(_, _, _, _)
Jump(m, backwards, fresh, fault) ==
    LET m0 == [m EXCEPT !.log.attempted = TRUE]
        outcomes ==
            IF Cs(m0) = <<>>
            THEN {[m |-> m0, jumped |-> FALSE]}
            ELSE UNION {
                IF t # <<>>
                THEN JumpSelected(m0, t, fault)
                ELSE Jump(CurrentSnippetIsDone(
                              [m0 EXCEPT !.ctab = <<>>,
                                         !.log.forced = Append(@, Cs(m0)[1].id)]),
                          backwards, FALSE, fault)
                : t \in SelectNextTab(Cs(m0)[1], backwards, fresh)}
    IN  {IF o.jumped THEN [o EXCEPT !.m = RememberPosition(o.m)] ELSE o
         : o \in outcomes}

\* an id no live instance and no snapshot carries
NewId(m) ==
    LET used == {m.cs[i].id : i \in 1..Len(m.cs)} \cup {m.lvb[i].of : i \in 1..Len(m.lvb)}
    IN  CHOOSE i \in Ids \ used : \A j \in Ids \ used : i <= j

\* collaborator (SnippetInstance): the visual content the body of the new
\* instance is given, if it refers to it
VisualSeen(m, snip) == IF snip.visual THEN m.vis ELSE ""

\* _do_snippet (lines 754-780); snip = [mlen |-> len(snippet.matched),
\* bodyEnd |-> where the expanded body ends, visual |-> the body refers to
\* the visual content, ...]
DoSnippet_asKeepVisual(m, snip, fault) ==
    LET start == Pos(m.cur.line, m.cur.col - snip.mlen)
        end == Pos(m.cur.line, m.cur.col)
        l == Launch(m.cs, NewId(m), start, end, snip.bodyEnd)
        m1 == [m EXCEPT !.vis = IF snip.visual THEN "" ELSE @,
                        !.cs = Append(l.stack, l.si),
                        !.ign = TRUE,
                        !.log.push = <<[id |-> l.si.id, under |-> Cs(m),
                                        start |-> start, end |-> end,
                                        visual |-> VisualSeen(m, snip)]>>]
    IN  IF fault = "launch" THEN {Raise(m)}
        ELSE {o.m : o \in Jump(RememberBuffer(m1, m1.cs[Csnippets0(m1)]),
                               FALSE, TRUE, fault)}

DoSnippet_asNoJump(m, snip, fault) ==
    LET start == Pos(m.cur.line, m.cur.col - snip.mlen)
        end == Pos(m.cur.line, m.cur.col)
        l == Launch(m.cs, NewId(m), start, end, snip.bodyEnd)
        m1 == [m EXCEPT !.vis = "",
                        !.cs = Append(l.stack, l.si),
                        !.ign = TRUE,
                        !.log.push = <<[id |-> l.si.id, under |-> Cs(m),
                                        start |-> start, end |-> end,
                                        visual |-> VisualSeen(m, snip)]>>]
    IN  IF fault = "launch" THEN {Raise(m)}
        ELSE {RememberBuffer(m1, m1.cs[Csnippets0(m1)])}

DoSnippet(m, snip, fault) ==
    LET start == Pos(m.cur.line, m.cur.col - snip.mlen)
        end == Pos(m.cur.line, m.cur.col)
        l == Launch(m.cs, NewId(m), start, end, snip.bodyEnd)
        m1 == [m EXCEPT !.vis = "",
                        !.cs = Append(l.stack, l.si),
                        !.ign = TRUE,
                        !.log.push = <<[id |-> l.si.id, under |-> Cs(m),
                                        start |-> start, end |-> end,
                                        visual |-> VisualSeen(m, snip)]>>]
    IN  IF fault = "launch" THEN {Raise(m)}
        ELSE {o.m : o \in Jump(RememberBuffer(m1, m1.cs[Csnippets0(m1)]),
                               FALSE, TRUE, fault)}

\* _try_expand (lines 782-800); inp = [found |-> "none", "one" or "several"
\* for len(snippets), chosen |-> ask_for_users_choice gave a snippet, mlen,
\* bodyEnd]; yields [m, rv]
TryExpand_asFailOnNoChoice(m, inp, fault) ==
    LET m0 == [m EXCEPT !.log.attempted = TRUE]
    IN  IF m0.cur.col = 0 \/ inp.found = "none"
           \/ (inp.found = "several" /\ ~inp.chosen)
        THEN {[m |-> m0, rv |-> FALSE]}
        ELSE {[m |-> x, rv |-> TRUE]
              : x \in DoSnippet(m0, inp, fault)}

TryExpand(m, inp, fault) ==
    LET m0 == [m EXCEPT !.log.attempted = TRUE]
    IN  IF m0.cur.col = 0 THEN {[m |-> m0, rv |-> FALSE]}
        ELSE IF inp.found = "none" THEN {[m |-> m0, rv |-> FALSE]}
        ELSE IF inp.found = "several" /\ ~inp.chosen
        THEN {[m |-> [m0 EXCEPT !.log.ambiguous = TRUE], rv |-> TRUE]}
        ELSE {[m |-> x, rv |-> TRUE]
              : x \in DoSnippet(m0, inp, fault)}


(***************************************************************************)
(* SnippetManager: the public operations, before err_to_scratch_buffer.    *)
(* Each yields the set of states the operation can end in.  fault names    *)
(* the statement that raises, if any: "sink1" the first write of the       *)
(* outcome flag, "sink2" and "sink0" the later ones, "launch"              *)
(* snippet.launch, "select" the selection of the tabstop in _jump, "body"  *)
(* the body of an operation without any of these.                          *)
(***************************************************************************)
\* what follows a failed attempt: the flag is set to 0, then _handle_failure
Failed(m, fault) ==
    LET m1 == Command(m, 0, fault = "sink0")
    IN  IF Raised(m1) THEN m1 ELSE HandleFailure(m1)

\* jump_forwards (lines 431-436), jump_backwards (lines 438-443)
JumpOp(m, backwards, fault) ==
    LET m1 == Command(m, 1, fault = "sink1")
    IN  IF Raised(m1) THEN {m1}
        ELSE {IF Raised(o.m) \/ o.jumped THEN o.m ELSE Failed(o.m, fault)
              : o \in Jump(m1, backwards, FALSE, fault)}

JumpForwards(m, fault) == JumpOp(m, FALSE, fault)

JumpBackwards(m, fault) == JumpOp(m, TRUE, fault)

\* expand (lines 445-450)
Expand(m, inp, fault) ==
    LET m1 == Command(m, 1, fault = "sink1")
    IN  IF Raised(m1) THEN {m1}
        ELSE {IF Raised(o.m) \/ o.rv THEN o.m ELSE Failed(o.m, fault)
              : o \in TryExpand(m1, inp, fault)}

\* expand_or_jump (lines 472-487)
ExpandOrJump_asAlwaysJump(m, inp, fault) ==
    LET m1 == Command(m, 1, fault = "sink1")
    IN  IF Raised(m1) THEN {m1}
        ELSE UNION {
            IF Raised(o.m) THEN {o.m}
            ELSE LET m2 == Command(o.m, 2, fault = "sink2")
                 IN  IF Raised(m2) THEN {m2}
                     ELSE {IF Raised(j.m) \/ j.jumped THEN j.m ELSE Failed(j.m, fault)
                           : j \in Jump(m2, FALSE, FALSE, fault)}
            : o \in TryExpand(m1, inp, fault)}

ExpandOrJump(m, inp, fault) ==
    LET m1 == Command(m, 1, fault = "sink1")
    IN  IF Raised(m1) THEN {m1}
        ELSE UNION {
            IF Raised(o.m) \/ o.rv THEN {o.m}
            ELSE LET m2 == Command(o.m, 2, fault = "sink2")
                 IN  IF Raised(m2) THEN {m2}
                     ELSE {IF Raised(j.m) \/ j.jumped THEN j.m ELSE Failed(j.m, fault)
                           : j \in Jump(m2, FALSE, FALSE, fault)}
            : o \in TryExpand(m1, inp, fault)}

\* list_snippets (lines 452-469)
ListSnippets(m, inp, fault) ==
    IF fault = "body" THEN {Raise(m)}
    ELSE IF inp.found = "none" \/ ~inp.chosen THEN {m}
    ELSE DoSnippet(m, inp, fault)

\* expand_anon (lines 505-517); inp.found = "none" stands for a trigger that
\* does not match, inp.mlen = 0 with inp.found = "one" for no trigger
ExpandAnon(m, inp, fault) ==
    IF fault = "body" THEN {Raise(m)}
    ELSE IF inp.found = "one"
    THEN DoSnippet(m, inp, fault)
    ELSE {m}

\* save_last_visual_selection (lines 489-496)
SaveLastVisualSelection(m, fault) ==
    IF fault = "body" THEN Raise(m) ELSE [m EXCEPT !.vis = "selection"]

\* add_snippet (lines 498-503): the definitions a trigger matches are inputs
\* of expand, so nothing modelled changes
AddSnippet(m, fault) == IF fault = "body" THEN Raise(m) ELSE m

Reset_asKeepStack(m, fault) ==
    LET m1 == [NewVimState(m) EXCEPT !.vis = ""]
    IN  IF fault = "body" THEN Raise(m1) ELSE Reinit(m1)

\* reset (lines 416-429)
Reset(m, fault) ==
    LET m1 == [NewVimState(m) EXCEPT !.vis = ""]
    IN  IF fault = "body" THEN Raise(m1) ELSE Reinit(PopAll(m1))

\* cursor_moved, lines 544-586: the edit script between the snapshot and the
\* buffer is replayed; fault "index" is an IndexError inside the try, fault
\* "body" any other exception: either way the edits are not applied
Reconcile_asIndexRaises(m, fault) ==
    LET target == Csnippets0(m)
        logged == [m EXCEPT !.log.replay =
                      <<[target |-> m.cs[target].id, against |-> m.lvb[1].of,
                         top |-> Cs(m)[1].id, bottom |-> m.cs[1].id,
                         es |-> GuessOrDiff(m)]>>]
    IN  IF m.lvb = <<>> \/ Len(m.poss) < 2 THEN Raise(m)
        ELSE IF fault \in {"index", "body"} THEN Raise(m)
        ELSE [logged EXCEPT !.cs = ReplayUserEdits(m.cs, target, GuessOrDiff(m))]

Reconcile(m, fault) ==
    LET target == Csnippets0(m)
        logged == [m EXCEPT !.log.replay =
                      <<[target |-> m.cs[target].id, against |-> m.lvb[1].of,
                         top |-> Cs(m)[1].id, bottom |-> m.cs[1].id,
                         es |-> GuessOrDiff(m)]>>]
    IN  IF m.lvb = <<>> \/ Len(m.poss) < 2 THEN Raise(m)
        ELSE IF fault = "index" THEN [m EXCEPT !.log.exc = "swallowed"]
        ELSE IF fault = "body" THEN Raise(m)
        ELSE [logged EXCEPT !.cs = ReplayUserEdits(m.cs, target, GuessOrDiff(m))]

\* SnippetInstance.update_textobjects (collaborator)
UpdateTextobjects(m) == m

CursorMoved_asFlagKept(m, mode, fault) ==
    LET m1 == RememberPosition(m)
        m2 == IF Len(m1.cs) > 0 THEN Reconcile(m1, fault) ELSE m1
        m3 == [CheckIfStillInsideSnippet(m2) EXCEPT !.log.checked = TRUE]
    IN  IF mode \notin {"i", "n"} THEN m1
        ELSE IF m1.ign THEN m1
        ELSE IF Raised(m2) THEN m2
        ELSE IF Len(m3.cs) > 0
        THEN RememberBuffer(UpdateTextobjects(m3), m3.cs[Csnippets0(m3)])
        ELSE m3

\* cursor_moved (lines 534-591)
CursorMoved(m, mode, fault) ==
    LET m1 == RememberPosition(m)
        m2 == IF Len(m1.cs) > 0 THEN Reconcile(m1, fault) ELSE m1
        m3 == [CheckIfStillInsideSnippet(m2) EXCEPT !.log.checked = TRUE]
    IN  IF mode \notin {"i", "n"} THEN m1
        ELSE IF m1.ign THEN [m1 EXCEPT !.ign = FALSE]
        ELSE IF Raised(m2) THEN m2
        ELSE IF Len(m3.cs) > 0
        THEN RememberBuffer(UpdateTextobjects(m3), m3.cs[Csnippets0(m3)])
        ELSE m3


(***************************************************************************)
(* The state machine: one action per call the editor makes.  The runs of   *)
(* an operation are the ways it can go from the current state: its inputs, *)
(* the statement that raises, and the state m it ends in.                  *)
(***************************************************************************)
\* no function is called on its own while the manager runs
NoCall == [fn |-> "none"]

NoRet == [done |-> FALSE]

Init ==
    /\ csnippets = <<>>
    /\ ctab = <<>>
    /\ ignore_movements = FALSE
    /\ poss = <<>>
    /\ lvb = <<>>
    /\ visual = ""
    /\ cursor = Pos(0, 0)
    /\ call = NoCall
    /\ ret = NoRet

Store(m) ==
    /\ csnippets' = m.cs
    /\ ctab' = m.ctab
    /\ ignore_movements' = m.ign
    /\ poss' = m.poss
    /\ lvb' = m.lvb
    /\ visual' = m.vis
    /\ cursor' = m.cur
    /\ UNCHANGED <<call, ret>>

\* the runs of an operation decorated with @err_to_scratch_buffer, which
\* ends in one of the states of ends when called with inp and fault
Wrapped(inp, fault, ends) ==
    {[inp |-> inp, fault |-> fault, m |-> ErrToScratchBuffer(x)] : x \in ends}

NoInput ==
    [found |-> "none", chosen |-> FALSE, mlen |-> 0, bodyEnd |-> Pos(0, 0),
     visual |-> FALSE]

\* what a request for a snippet can meet: no definition found, several found
\* and none chosen, or a definition to expand that matched mlen >= minLen
\* characters before the cursor, whose body ends at bodyEnd and refers
\* (visual) or does not refer to the preserved visual content
SnippetInputs(minLen) ==
    {[found |-> "none", chosen |-> FALSE, mlen |-> minLen, bodyEnd |-> cursor,
      visual |-> FALSE],
     [found |-> "several", chosen |-> FALSE, mlen |-> minLen, bodyEnd |-> cursor,
      visual |-> FALSE]}
    \cup {inp \in [found : {"one", "several"}, chosen : {TRUE},
                   mlen : minLen..cursor.col, bodyEnd : Positions,
                   visual : BOOLEAN] :
            /\ PosLE(Pos(cursor.line, cursor.col - inp.mlen), inp.bodyEnd)
            /\ Len(csnippets) < MaxDepth}

ResetRuns ==
    UNION {Wrapped(NoInput, f, {Reset(Self, f)}) : f \in {"none", "body"}}

JumpForwardsRuns ==
    UNION {Wrapped(NoInput, f, JumpForwards(Self, f))
           : f \in {"none", "sink1", "select", "sink0"}}

JumpBackwardsRuns ==
    UNION {Wrapped(NoInput, f, JumpBackwards(Self, f))
           : f \in {"none", "sink1", "select", "sink0"}}

ExpandRuns ==
    UNION {Wrapped(inp, f, Expand(Self, inp, f))
           : inp \in SnippetInputs(1),
             f \in {"none", "sink1", "launch", "select", "sink0"}}

ExpandOrJumpRuns ==
    UNION {Wrapped(inp, f, ExpandOrJump(Self, inp, f))
           : inp \in SnippetInputs(1),
             f \in {"none", "sink1", "launch", "select", "sink2", "sink0"}}

ListSnippetsRuns ==
    UNION {Wrapped(inp, f, ListSnippets(Self, inp, f))
           : inp \in SnippetInputs(0), f \in {"none", "body", "launch", "select"}}

ExpandAnonRuns ==
    UNION {Wrapped(inp, f, ExpandAnon(Self, inp, f))
           : inp \in {i \in SnippetInputs(0) : i.found # "several"},
             f \in {"none", "body", "launch", "select"}}

SaveLastVisualSelectionRuns ==
    UNION {Wrapped(NoInput, f, {SaveLastVisualSelection(Self, f)})
           : f \in {"none", "body"}}

AddSnippetRuns ==
    UNION {Wrapped(NoInput, f, {AddSnippet(Self, f)}) : f \in {"none", "body"}}

\* the user typed (d = 1) or deleted (d = -1) a character at position at,
\* which leaves the cursor at position to
Edited(m, at, d, to) == [m EXCEPT !.cur = to, !.edit = <<[at |-> at, d |-> d]>>]

\* The editor moved the cursor, or the user typed or deleted a character in
\* insert mode, and the CursorMoved/CursorMovedI autocommand calls
\* cursor_moved.  The movement that follows an expansion is the cursor being
\* placed: the text is edited only once that movement has been ignored.
MovedRuns ==
    UNION {Wrapped([mode |-> mode, to |-> p], f,
                   {CursorMoved([Self EXCEPT !.cur = p], mode, f)})
           : mode \in Modes, p \in Positions, f \in {"none", "index", "body"}}

TypedRuns ==
    IF ~ignore_movements /\ cursor.col < MaxCol
    THEN UNION {Wrapped([mode |-> "i", to |-> Pos(cursor.line, cursor.col + 1)], f,
                        {CursorMoved(Edited(Self, cursor, 1,
                                            Pos(cursor.line, cursor.col + 1)),
                                     "i", f)})
                : f \in {"none", "index", "body"}}
    ELSE {}

DeletedRuns ==
    IF ~ignore_movements /\ cursor.col > 0
    THEN UNION {Wrapped([mode |-> "i", to |-> Pos(cursor.line, cursor.col - 1)], f,
                        {CursorMoved(Edited(Self, Pos(cursor.line, cursor.col - 1), -1,
                                            Pos(cursor.line, cursor.col - 1)),
                                     "i", f)})
                : f \in {"none", "index", "body"}}
    ELSE {}

CursorMovedRuns == MovedRuns \cup TypedRuns \cup DeletedRuns

\* leaving_buffer is called by the editor as it is: it has no decorator
LeavingBufferRuns == {[inp |-> NoInput, fault |-> "none", m |-> LeavingBuffer(Self)]}

ResetAct == \E r \in ResetRuns : Store(r.m)

JumpForwardsAct == \E r \in JumpForwardsRuns : Store(r.m)

JumpBackwardsAct == \E r \in JumpBackwardsRuns : Store(r.m)

ExpandAct == \E r \in ExpandRuns : Store(r.m)

ExpandOrJumpAct == \E r \in ExpandOrJumpRuns : Store(r.m)

ListSnippetsAct == \E r \in ListSnippetsRuns : Store(r.m)

ExpandAnonAct == \E r \in ExpandAnonRuns : Store(r.m)

SaveLastVisualSelectionAct == \E r \in SaveLastVisualSelectionRuns : Store(r.m)

AddSnippetAct == \E r \in AddSnippetRuns : Store(r.m)

CursorMovedAct == \E r \in CursorMovedRuns : Store(r.m)

LeavingBufferAct == \E r \in LeavingBufferRuns : Store(r.m)

Next ==
    \/ ResetAct
    \/ JumpForwardsAct
    \/ JumpBackwardsAct
    \/ ExpandAct
    \/ ExpandOrJumpAct
    \/ ListSnippetsAct
    \/ ExpandAnonAct
    \/ SaveLastVisualSelectionAct
    \/ AddSnippetAct
    \/ CursorMovedAct
    \/ LeavingBufferAct

Spec == Init /\ [][Next]_vars


(***************************************************************************)
(* Properties.  Each is stated of the runs an operation has from a         *)
(* reachable state: csnippets, lvb, ... are the state the operation is     *)
(* called in, r.m the state it ends in, r.m.log what it did.               *)
(***************************************************************************)
JumpRuns == JumpForwardsRuns \cup JumpBackwardsRuns

WrappedRuns ==
    ResetRuns \cup JumpRuns \cup ExpandRuns \cup ExpandOrJumpRuns
    \cup ListSnippetsRuns \cup ExpandAnonRuns \cup SaveLastVisualSelectionRuns
    \cup AddSnippetRuns \cup CursorMovedRuns

\* the run ended without a fault reaching err_to_scratch_buffer
Returned(r) == r.m.log.exc \in {"none", "swallowed"}

\* cursor_moved got past the mode test and the ignore test with snippets active
Reconciles(r) ==
    r.inp.mode \in {"i", "n"} /\ ~ignore_movements /\ csnippets # <<>>

\* C1 as claimed: every reconciliation of cursor_moved replays the edit
\* script onto the top of the stack, and diffs against the snapshot taken
\* of that top instance.
C1_ReplayOntoTop ==
    \A r \in CursorMovedRuns :
        (Reconciles(r) /\ r.fault = "none") =>
            /\ r.m.log.replay # <<>>
            /\ r.m.log.replay[1].target = Last(csnippets).id
            /\ r.m.log.replay[1].against = Last(csnippets).id

\* C1 as amended: every reconciliation of cursor_moved replays the edit
\* script onto the bottom of the stack (self._csnippets[0], the first
\* instance pushed), and the snapshot it is diffed against, like the one it
\* leaves behind, was taken of that bottom instance; with one instance active
\* this is the top.
C1_ReplayOntoBottom ==
    \A r \in CursorMovedRuns :
        (Reconciles(r) /\ r.fault = "none") =>
            /\ r.m.log.replay # <<>>
            /\ r.m.log.replay[1].target = csnippets[1].id
            /\ r.m.log.replay[1].against = csnippets[1].id
            /\ Len(csnippets) = 1 => r.m.log.replay[1].target = Last(csnippets).id
            /\ (Returned(r) /\ r.m.cs # <<>>) =>
                   r.m.lvb = <<[of |-> r.m.cs[1].id,
                                first |-> r.m.cs[1].start.line,
                                last |-> r.m.cs[1].end.line]>>

\* two instances are active and cursor_moved replays a typed character
C1_Witness ==
    \E r \in CursorMovedRuns :
        /\ Reconciles(r) /\ Len(csnippets) = 2 /\ r.fault = "none"
        /\ r.m.log.replay # <<>>
        /\ r.m.log.replay[1].es # <<>>
        /\ r.m.log.replay[1].target # r.m.log.replay[1].top

\* C2: once the containment check of cursor_moved has finished, the stack
\* is empty or the top instance contains the cursor (start <= cursor <= end);
\* the instances removed are the topmost ones, removed one at a time from
\* the top, and none of them contained the cursor.
C2_InsideAfterCheck ==
    \A r \in CursorMovedRuns :
        r.m.log.checked =>
            /\ r.m.cs = <<>> \/ Contains(Last(r.m.cs), r.m.cur)
            /\ r.m.cs = <<>> \/
                   (PosLE(Last(r.m.cs).start, r.m.cur) /\ PosLE(r.m.cur, Last(r.m.cs).end))
            /\ IdsOf(r.m.cs) \o Reverse(IdsOf(r.m.log.popped)) = IdsOf(csnippets)
            /\ \A i \in 1..Len(r.m.log.popped) : ~Contains(r.m.log.popped[i], r.m.cur)

\* of two active instances the check removes the top and keeps the bottom
C2_Witness ==
    \E r \in CursorMovedRuns :
        /\ r.m.log.checked /\ Len(csnippets) = 2
        /\ Len(r.m.log.popped) = 1 /\ Len(r.m.cs) = 1
        /\ Contains(r.m.cs[1], r.m.cur)

\* the definition expanded: the only one found, or the one chosen
Expands(r) ==
    /\ cursor.col > 0
    /\ r.inp.found = "one" \/ (r.inp.found = "several" /\ r.inp.chosen)

\* C3: an expand with one matching definition, or one chosen, creates one
\* instance, pushes it as the new top above the unchanged lower entries and
\* jumps to its first tabstop in the same operation; the stack is one deeper
\* afterwards, unless that tabstop is number 0: then the new instance is
\* already removed and the depth is unchanged.
C3_ExpandPushesAndJumps ==
    \A r \in ExpandRuns :
        (Expands(r) /\ Returned(r)) =>
            /\ Len(r.m.log.push) = 1
            /\ \A i \in 1..Len(csnippets) : csnippets[i].id # r.m.log.push[1].id
            /\ Len(r.m.log.sel) = 1
            /\ r.m.log.sel[1].id = r.m.log.push[1].id
            /\ r.m.log.sel[1].depth = Len(csnippets) + 1
            /\ r.m.ctab = <<r.m.log.sel[1].no>>
            /\ r.m.log.forced = <<>>
            /\ IF r.m.log.sel[1].no = 0
               THEN /\ IdsOf(r.m.cs) = IdsOf(csnippets)
                    /\ IdsOf(r.m.log.popped) = <<r.m.log.push[1].id>>
               ELSE /\ IdsOf(r.m.cs) = Append(IdsOf(csnippets), r.m.log.push[1].id)
                    /\ r.m.log.popped = <<>>
            /\ r.m.log.writes = <<1>>
            /\ ~r.m.log.failure

\* an expansion inside an active snippet that stays on the stack
C3_Witness ==
    \E r \in ExpandRuns :
        /\ Expands(r) /\ Returned(r)
        /\ Len(csnippets) = 1 /\ Len(r.m.cs) = 2
        /\ r.m.log.sel # <<>> /\ r.m.log.sel[1].no # 0

\* the stack on which the jump's tabstop was selected: the stack it was
\* called on, less the instances that had no tabstop left
StackSelectedOn(r) == SubSeq(csnippets, 1, Len(csnippets) - Len(r.m.log.forced))

\* C4: a jump, forward or backward, in which the top instance selects
\* tabstop 0 removes that instance and no other, reports success, and leaves
\* the instance beneath it on top; a jump that selects a tabstop with another
\* number leaves the stack as it is.
C4_ZeroFinishes ==
    \A r \in JumpRuns :
        (Returned(r) /\ r.m.log.sel # <<>>) =>
            /\ r.m.log.sel[1].id = Last(StackSelectedOn(r)).id
            /\ r.m.log.forced = <<>> => r.m.log.sel[1].id = Last(csnippets).id
            /\ r.m.log.writes = <<1>> /\ ~r.m.log.failure
            /\ IF r.m.log.sel[1].no = 0
               THEN /\ r.m.cs = Front(StackSelectedOn(r))
                    /\ IdsOf(r.m.log.popped) =
                           r.m.log.forced \o <<r.m.log.sel[1].id>>
               ELSE /\ r.m.cs = StackSelectedOn(r)
                    /\ IdsOf(r.m.log.popped) = r.m.log.forced
                    /\ r.m.log.forced = <<>> => r.m.cs = csnippets

\* a backward jump selects tabstop 0 in the upper of two instances
C4_Witness ==
    \E r \in JumpBackwardsRuns :
        /\ Returned(r) /\ Len(csnippets) = 2
        /\ r.m.log.sel # <<>> /\ r.m.log.sel[1].no = 0
        /\ r.m.log.forced = <<>>
        /\ r.m.cs = <<csnippets[1]>>

\* C5: leaving_buffer, in any state, removes every instance, the innermost
\* first and the outermost last, runs no replay, and resets the current
\* tabstop and the ignore-movement flag.
C5_LeaveEmptiesStack ==
    \A r \in LeavingBufferRuns :
        /\ r.m.cs = <<>>
        /\ IdsOf(r.m.log.popped) = Reverse(IdsOf(csnippets))
        /\ r.m.log.replay = <<>>
        /\ r.m.ctab = <<>>
        /\ r.m.ign = FALSE
        /\ r.m.log.exc = "none"

\* leaving_buffer with two instances active, a tabstop selected and the
\* ignore-movement flag set
C5_Witness ==
    \E r \in LeavingBufferRuns :
        /\ Len(r.m.log.popped) = 2
        /\ ctab # <<>> /\ ignore_movements
        /\ r.m.cs = <<>> /\ r.m.ctab = <<>> /\ ~r.m.ign

\* C6 as claimed: when expand pushes an instance onto a non-empty stack, the
\* span [start, end] it is created with lies in the span of the instance
\* beneath it.
C6_PushedInsideTop ==
    \A r \in ExpandRuns :
        (r.m.log.push # <<>> /\ r.m.log.push[1].under # <<>>) =>
            /\ Contains(r.m.log.push[1].under[1], r.m.log.push[1].start)
            /\ Contains(r.m.log.push[1].under[1], r.m.log.push[1].end)

\* C7 as claimed: while the stack is empty, no snapshot and no position is
\* held.
C7_ClearedWhenEmpty == csnippets = <<>> => (lvb = <<>> /\ poss = <<>>)

\* C7 as amended: only reset() clears the edit-tracking state (no snapshot,
\* empty position history).  When a jump (tabstop 0, or instances without a
\* tabstop left), the containment check or leave empties the stack, the
\* remembered snapshot stays as it was and the position history is not
\* emptied; the containment check and leave reset the current tabstop and the
\* ignore-movement flag, nothing else.
C7_KeptUntilReset ==
    /\ \A r \in ResetRuns :
           r.m.cs = <<>> /\ r.m.lvb = <<>> /\ r.m.poss = <<>>
    /\ \A r \in JumpRuns \cup CursorMovedRuns \cup LeavingBufferRuns :
           (Returned(r) /\ csnippets # <<>> /\ r.m.cs = <<>>) =>
               /\ lvb # <<>>
               /\ r.m.lvb = lvb
               /\ r.m.poss # <<>>
               /\ Len(r.m.poss) >= Len(poss)
    /\ \A r \in CursorMovedRuns \cup LeavingBufferRuns :
           (Returned(r) /\ csnippets # <<>> /\ r.m.cs = <<>>) =>
               r.m.ctab = <<>> /\ ~r.m.ign

\* the containment check removes the last instance and the snapshot stays
C7_Witness ==
    \E r \in CursorMovedRuns :
        /\ csnippets # <<>> /\ r.m.cs = <<>> /\ r.m.log.checked
        /\ r.m.lvb # <<>> /\ r.m.poss # <<>>

\* C8: a fault raised inside an operation decorated with
\* err_to_scratch_buffer, other than the IndexError cursor_moved swallows,
\* does not reach the caller; the stack is empty when the operation returns
\* and the fault has been written to the scratch buffer.  The swallowed
\* IndexError opens no scratch buffer.
C8_FaultsUnwind ==
    \A r \in WrappedRuns :
        /\ r.m.log.exc # "raised"
        /\ r.m.log.exc = "caught" => (r.m.cs = <<>> /\ r.m.log.scratch)
        /\ r.m.log.exc # "caught" => ~r.m.log.scratch

\* the selection of a tabstop raises in expand with an instance active
C8_Witness ==
    \E r \in ExpandRuns :
        /\ r.fault = "select" /\ r.m.log.exc = "caught"
        /\ Len(csnippets) = 1 /\ r.m.log.push # <<>>
        /\ Len(r.m.log.popped) = 2

\* C9 as claimed: when the write of an outcome flag fails, the expand or jump
\* is attempted all the same, and the stack ends as it does in a run where
\* the write succeeds.
C9_SinkFaultDoesNotAbort ==
    \A r \in ExpandRuns \cup JumpRuns \cup ExpandOrJumpRuns :
        r.m.log.sinkfault =>
            /\ r.m.log.attempted
            /\ \E q \in ExpandRuns \cup JumpRuns \cup ExpandOrJumpRuns :
                   ~q.m.log.sinkfault /\ q.inp = r.inp /\ q.m.cs = r.m.cs

\* C10: when several definitions match and the prompt returns no selection,
\* expand changes nothing: the stack, the snapshot, the ignore-movement flag
\* and the visual content stay as they are, the outcome flag is not set to
\* 0 and _handle_failure is not called.
C10_NoChoiceIsNoOp ==
    \A r \in ExpandRuns :
        (cursor.col > 0 /\ r.inp.found = "several" /\ ~r.inp.chosen
         /\ r.fault = "none") =>
            /\ r.m.cs = csnippets
            /\ r.m.lvb = lvb
            /\ r.m.ign = ignore_movements
            /\ r.m.vis = visual
            /\ r.m.ctab = ctab /\ r.m.poss = poss /\ r.m.cur = cursor
            /\ r.m.log.writes = <<1>>
            /\ ~r.m.log.failure
            /\ r.m.log.ambiguous

\* no selection, with an instance active, the flag set and a visual selection saved
C10_Witness ==
    \E r \in ExpandRuns :
        /\ cursor.col > 0 /\ r.inp.found = "several" /\ ~r.inp.chosen
        /\ r.fault = "none" /\ r.m.log.ambiguous
        /\ csnippets # <<>> /\ ignore_movements /\ visual # ""
        /\ r.m.cs = csnippets /\ r.m.vis = visual

\* _try_expand returns a true value: a definition was found for non-empty
\* text before the cursor (expanded, or several found and none chosen)
ExpansionSucceeds(r) == cursor.col > 0 /\ r.inp.found # "none"

\* C11: expand_or_jump attempts the expansion first and jumps forward only
\* when the expansion failed (empty text before the cursor and no matching
\* definition count as failed); the outcome flag ends at 1 when the expansion
\* succeeded, at 2 when it failed and the jump succeeded, at 0 when both
\* failed, and _handle_failure is called exactly when it ends at 0.
C11_ExpandThenJump ==
    \A r \in ExpandOrJumpRuns :
        Returned(r) =>
            /\ r.m.log.attempted
            /\ r.m.log.failure <=> Last(r.m.log.writes) = 0
            /\ IF ExpansionSucceeds(r)
               THEN /\ r.m.log.writes = <<1>>
                    /\ r.m.log.forced = <<>>
                    /\ r.m.log.push = <<>> =>
                           (r.m.log.sel = <<>> /\ r.m.cs = csnippets /\ r.m.poss = poss)
                    /\ r.m.log.push # <<>> =>
                           r.m.log.sel[1].id = r.m.log.push[1].id
               ELSE /\ r.m.log.push = <<>>
                    /\ IF r.m.log.sel # <<>>
                       THEN r.m.log.writes = <<1, 2>>
                       ELSE r.m.log.writes = <<1, 2, 0>>

\* with an instance active and text before the cursor, expand_or_jump can end
\* each of the three ways
C11_Witness ==
    /\ csnippets # <<>> /\ cursor.col > 0
    /\ \E r \in ExpandOrJumpRuns :
           Returned(r) /\ r.m.log.writes = <<1>> /\ r.m.log.push # <<>>
    /\ \E r \in ExpandOrJumpRuns :
           Returned(r) /\ r.m.log.writes = <<1, 2>> /\ r.m.log.sel # <<>>
    /\ \E r \in ExpandOrJumpRuns :
           Returned(r) /\ r.m.log.writes = <<1, 2, 0>> /\ r.m.log.failure

\* the runs of the operations that can expand a snippet
PushRuns == ExpandRuns \cup ExpandOrJumpRuns \cup ListSnippetsRuns \cup ExpandAnonRuns

\* C12 as claimed: an expansion that refers to the preserved visual content
\* sees it and clears it; an expansion that does not refer to it leaves it
\* in place for a later one.
C12_KeptUntilReferenced ==
    \A r \in PushRuns :
        r.m.log.push # <<>> =>
            IF r.inp.visual
            THEN r.m.log.push[1].visual = visual /\ r.m.vis = ""
            ELSE r.m.vis = visual

\* C12 as amended: the visual content captured by save_last_visual_selection
\* is available to the next expansion only.  Every expansion that launches an
\* instance clears it, whether its body refers to it or not; the expansion
\* sees it if it refers to it; an operation that expands nothing leaves it.
C12_ClearedByNextExpansion ==
    /\ \A r \in PushRuns :
           IF r.m.log.push # <<>>
           THEN /\ r.m.vis = ""
                /\ r.m.log.push[1].visual = (IF r.inp.visual THEN visual ELSE "")
           ELSE r.m.vis = visual
    /\ \A r \in SaveLastVisualSelectionRuns :
           Returned(r) => r.m.vis = "selection"

\* visual content is held and an expansion that does not refer to it clears it
C12_Witness ==
    \E r \in PushRuns :
        /\ visual # "" /\ ~r.inp.visual /\ Returned(r)
        /\ r.m.log.push # <<>> /\ r.m.vis = ""

(***************************************************************************)
(* Snippet.matches (lines 190-230) on texts, which are sequences of        *)
(* characters.  Python's str methods are modelled by what they compute.    *)
(***************************************************************************)
Chars == {"a", ".", " "}

\* str.isspace of one character
IsSpace(ch) == ch = " "

\* the regular expression class \w
IsWordChar(ch) == ch = "a"

Texts(n) == UNION {[1..k -> Chars] : k \in 0..n}

\* s[:k] and s[k:] of Python, k negative counts from the end
PySliceTo(s, k) ==
    LET e == IF k < 0 THEN (IF Len(s) + k < 0 THEN 0 ELSE Len(s) + k)
             ELSE (IF k > Len(s) THEN Len(s) ELSE k)
    IN  SubSeq(s, 1, e)

PySliceFrom(s, k) ==
    LET b == IF k < 0 THEN (IF Len(s) + k < 0 THEN 0 ELSE Len(s) + k)
             ELSE (IF k > Len(s) THEN Len(s) ELSE k)
    IN  SubSeq(s, b + 1, Len(s))

\* str.rstrip(), str.lstrip(), str.strip()
RECURSIVE RStrip(_)
RStrip(s) ==
    IF s # <<>> /\ IsSpace(s[Len(s)]) THEN RStrip(SubSeq(s, 1, Len(s) - 1)) ELSE s

RECURSIVE LStrip(_)
LStrip(s) == IF s # <<>> /\ IsSpace(s[1]) THEN LStrip(Tail(s)) ELSE s

Strip(s) == LStrip(RStrip(s))

\* str.split(): the maximal runs of characters that are not whitespace
RECURSIVE Split(_)
Split(s) ==
    LET t == LStrip(s)
        n == IF \E i \in 1..Len(t) : IsSpace(t[i])
             THEN (CHOOSE i \in 1..Len(t) :
                       IsSpace(t[i]) /\ \A j \in 1..(i - 1) : ~IsSpace(t[j])) - 1
             ELSE Len(t)
    IN  IF t = <<>> THEN <<>>
        ELSE <<SubSeq(t, 1, n)>> \o Split(SubSeq(t, n + 1, Len(t)))

\* str.rfind(w): the highest index (from 0) at which w occurs in s, or -1
RFind(s, w) ==
    LET at == {i \in 0..(Len(s) - Len(w)) : SubSeq(s, i + 1, i + Len(w)) = w}
    IN  IF at = {} THEN -1 ELSE CHOOSE i \in at : \A j \in at : j <= i

\* str.endswith
EndsWith(s, t) == Len(t) <= Len(s) /\ SubSeq(s, Len(s) - Len(t) + 1, Len(s)) = t

\* _words_for_line, lines 165-169: before_words after the loop has cut the
\* last n words of word_list from it
RECURSIVE CutWords(_, _, _)
CutWords(before_words, word_list, n) ==
    IF n = 0 THEN before_words
    ELSE CutWords(PySliceTo(before_words, RFind(before_words, word_list[Len(word_list)])),
                  SubSeq(word_list, 1, Len(word_list) - 1), n - 1)

\* _words_for_line (lines 150-170) with num_words = None
WordsForLine_asWholeLine(t, before) == Strip(before)

WordsForLine(t, before) ==
    LET num_words == Len(Split(t))
        word_list == Split(before)
    IN  IF Len(before) = 0 THEN <<>>
        ELSE IF Len(word_list) <= num_words THEN Strip(before)
        ELSE Strip(PySliceFrom(before, Len(CutWords(before, word_list, num_words))))

\* re.match(r'.\b.', boundaryChars): two characters with a word boundary
\* between them
BoundaryBetween(bc) == Len(bc) >= 2 /\ IsWordChar(bc[1]) # IsWordChar(bc[2])

\* matches, the branch of option w (lines 205-213)
WordMatch_asInword(t, words) == EndsWith(words, t)

WordMatch(t, words) ==
    LET words_len == Len(t)
        words_prefix == PySliceTo(words, -words_len)
        words_suffix == PySliceFrom(words, -words_len)
    IN  IF words_suffix = t /\ words_prefix # <<>>
        THEN BoundaryBetween(PySliceFrom(words_prefix, -1) \o PySliceTo(words_suffix, 1))
        ELSE words_suffix = t

\* matches, the test of option b (lines 219-224): the text before the match
\* is blank
BlankBefore_asAlways(trigger, matched) == TRUE

BlankBefore(trigger, matched) ==
    Strip(PySliceTo(RStrip(trigger), -Len(matched))) = <<>>

\* matches (lines 190-230) of a definition with trigger t and options opts
\* (option r apart); gives whether it matched and self._matched
Matches(t, opts, trigger) ==
    LET words == WordsForLine(t, trigger)
        match == IF "w" \in opts THEN WordMatch(t, words)
                 ELSE IF "i" \in opts THEN EndsWith(words, t)
                 ELSE words = t
        matched == IF match THEN t ELSE <<>>
    IN  IF trigger # <<>> /\ RStrip(trigger) # trigger
        THEN [match |-> FALSE, matched |-> <<>>]
        ELSE IF "b" \in opts /\ match /\ ~BlankBefore(trigger, matched)
        THEN [match |-> FALSE, matched |-> <<>>]
        ELSE [match |-> match, matched |-> matched]

(***************************************************************************)
(* Specification for matches: a definition and a text before the cursor    *)
(* are drawn, and matches is called once.                                  *)
(***************************************************************************)
MatchCalls ==
    [fn : {"matches"}, t : Texts(MaxTrigger) \ {<<>>}, opts : SUBSET {"w", "i", "b"},
     before : Texts(MaxBefore)]

ManagerIdle ==
    /\ csnippets = <<>> /\ ctab = <<>> /\ ignore_movements = FALSE
    /\ poss = <<>> /\ lvb = <<>> /\ visual = "" /\ cursor = Pos(0, 0)

InitMatches == ManagerIdle /\ call \in MatchCalls /\ ret = NoRet

MatchesAct ==
    /\ call.fn = "matches" /\ ~ret.done
    /\ ret' = [done |-> TRUE, rv |-> Matches(call.t, call.opts, call.before)]
    /\ UNCHANGED <<csnippets, ctab, ignore_movements, poss, lvb, visual, cursor, call>>

NextMatches == MatchesAct

SpecMatches == InitMatches /\ [][NextMatches]_vars

\* where the whitespace-delimited tokens of a text start
TokenStarts(s) == {i \in 1..Len(s) : ~IsSpace(s[i]) /\ (i = 1 \/ IsSpace(s[i - 1]))}

NumWords(s) == Cardinality(TokenStarts(s))

\* the trailing token run of s: the text from the start of its n-th token
\* from the end (from its first token when it has no more than n) to the end
\* of its last token
TrailingRun(s, n) ==
    LET starts == TokenStarts(s)
        from == IF Cardinality(starts) <= n
                THEN CHOOSE i \in starts : \A j \in starts : i <= j
                ELSE CHOOSE i \in starts : Cardinality({j \in starts : j >= i}) = n
    IN  IF starts = {} \/ n = 0 THEN <<>>
        ELSE SubSeq(s, from, Len(RStrip(s)))

EndsInSpace(s) == s # <<>> /\ IsSpace(s[Len(s)])

\* C13: a definition without the options r, w, i and b matches the text
\* before the cursor iff the trailing token run of that text, of as many
\* tokens as the trigger has words, is the trigger exactly (and the text does
\* not end in whitespace, after which nothing matches); the matched text is
\* then the trigger, and empty otherwise.
C13_PlainMatch ==
    (ret.done /\ call.opts = {}) =>
        /\ ret.rv.match <=>
               (/\ ~EndsInSpace(call.before)
                /\ TrailingRun(call.before, NumWords(call.t)) = call.t)
        /\ ret.rv.matched = (IF ret.rv.match THEN call.t ELSE <<>>)
        /\ EndsInSpace(call.before) => ~ret.rv.match

\* a trigger of two words matches the last two of three tokens
C13_Witness ==
    /\ ret.done /\ call.opts = {} /\ ret.rv.match
    /\ NumWords(call.t) = 2 /\ NumWords(call.before) = 3
    /\ ret.rv.matched = call.t

\* the trailing word-run of the text the call was made with
WordsOfCall == TrailingRun(call.before, NumWords(call.t))

\* the last character of what precedes the trigger in words
CharBeforeSuffix(words, t) == words[Len(words) - Len(t)]

MatchOfOtherOptions == Matches(call.t, call.opts \ {"b"}, call.before)

TriggerTexts == {"t1", "t2"}

\* collaborator (provider.get_matching_snippets): the definitions, created
\* once at load time, that match; the k-th of them is the object with id k
Provided ==
    UNION {{x \in [1..k -> [id : 1..k, trigger : TriggerTexts, bang : BOOLEAN]] :
               \A i \in 1..k : x[i].id = i} : k \in 0..MaxDefs}

\* _find_snippets (lines 839-853): what the providers return for a filetype;
\* ft is not passed on to them
FindSnippets(provided, ft) == provided

\* lines 729-731: found_snippets, the results for the buffer's filetypes
RECURSIVE FoundSnippets(_, _)
FoundSnippets(provided, nft) ==
    IF nft = 0 THEN <<>>
    ELSE FindSnippets(provided, nft) \o FoundSnippets(provided, nft - 1)

\* lines 735-739: the dictionary from trigger to list, <<>> for a missing key
RECURSIVE Overwrite_asNoBang(_, _)
Overwrite_asNoBang(found, snippets) ==
    IF found = <<>> THEN snippets
    ELSE Overwrite_asNoBang(Tail(found),
                            [snippets EXCEPT ![found[1].trigger] = Append(@, found[1])])

RECURSIVE Overwrite(_, _)
Overwrite(found, snippets) ==
    IF found = <<>> THEN snippets
    ELSE LET s == found[1]
             cleared == IF snippets[s.trigger] = <<>> \/ s.bang
                        THEN [snippets EXCEPT ![s.trigger] = <<>>]
                        ELSE snippets
         IN  Overwrite(Tail(found),
                       [cleared EXCEPT ![s.trigger] = Append(@, s)])

RECURSIVE Filter(_, _)
Filter(seq, keep) ==
    IF seq = <<>> THEN <<>>
    ELSE (IF seq[1] \in keep THEN <<seq[1]>> ELSE <<>>) \o Filter(Tail(seq), keep)

\* _snips: lines 735-744 applied to found_snippets
Snips(found) ==
    LET snippets == Overwrite(found, [t \in TriggerTexts |-> <<>>])
        selected_snippets ==
            UNION {{snippets[t][i] : i \in 1..Len(snippets[t])} : t \in TriggerTexts}
    IN  Filter(found, selected_snippets)

(***************************************************************************)
(* Specification for _snips: the provider's definitions and the number of  *)
(* filetypes of the buffer are drawn, and _snips is called once.           *)
(***************************************************************************)
SnipsCalls == [fn : {"_snips"}, provided : Provided, nft : 1..MaxFiletypes]

InitSnips == ManagerIdle /\ call \in SnipsCalls /\ ret = NoRet

SnipsAct ==
    /\ call.fn = "_snips" /\ ~ret.done
    /\ ret' = [done |-> TRUE, rv |-> Snips(FoundSnippets(call.provided, call.nft))]
    /\ UNCHANGED <<csnippets, ctab, ignore_movements, poss, lvb, visual, cursor, call>>

NextSnips == SnipsAct

SpecSnips == InitSnips /\ [][NextSnips]_vars

\* the places of a list that the rule of the last ! keeps: those with no
\* later place of the same trigger that carries the ! flag
KeptPlaces(found) ==
    {p \in 1..Len(found) :
        \A q \in (p + 1)..Len(found) :
            found[q].trigger = found[p].trigger => ~found[q].bang}

RECURSIVE AtPlaces(_, _, _)
AtPlaces(found, places, p) ==
    IF p > Len(found) THEN <<>>
    ELSE (IF p \in places THEN <<found[p]>> ELSE <<>>) \o AtPlaces(found, places, p + 1)

\* the definitions the rule of the last ! keeps
KeptDefinitions(found) == {found[p] : p \in KeptPlaces(found)}

\* C16: of the list of matching definitions the providers gave, _snips
\* returns exactly the definitions that come, among those of their trigger,
\* from the last one carrying the ! flag onward (all of a trigger when none
\* carries it), and it returns them in the order of the list.
C16_LastBangOnward ==
    ret.done =>
        LET found == FoundSnippets(call.provided, call.nft)
            kept == KeptDefinitions(found)
        IN  /\ {ret.rv[i] : i \in 1..Len(ret.rv)} = kept
            /\ ret.rv = AtPlaces(found, {p \in 1..Len(found) : found[p] \in kept}, 1)

\* a definition with ! has replaced an earlier one of its trigger, and the
\* list returned is in load order, not in the order of the triggers
C16_Witness ==
    /\ ret.done /\ call.nft = 1 /\ Len(call.provided) = 3
    /\ Len(ret.rv) = 2
    /\ ret.rv[1].trigger = "t2" /\ ret.rv[2].trigger = "t1" /\ ret.rv[2].bang
    /\ ret.rv[2].id = 3

\* C17: a jump removes the top instance when it has no tabstop left and is
\* tried again on the new top, until an instance selects a tabstop or the
\* stack is empty: the instances removed that way are the topmost ones,
\* innermost first, at most as many as the stack held; the jump fails only
\* with the stack empty when it returns, and a jump on an empty stack fails
\* and changes neither the stack nor the position history.
C17_ForcedFinishRetries ==
    \A r \in JumpRuns :
        Returned(r) =>
            LET n == Len(r.m.log.forced)
            IN  /\ n <= Len(csnippets)
                /\ r.m.log.forced =
                       Reverse(IdsOf(SubSeq(csnippets, Len(csnippets) - n + 1,
                                            Len(csnippets))))
                /\ r.m.log.sel # <<>> =>
                       /\ n < Len(csnippets)
                       /\ r.m.log.sel[1].id = csnippets[Len(csnippets) - n].id
                       /\ ~r.m.log.failure /\ r.m.log.writes = <<1>>
                /\ r.m.log.sel = <<>> =>
                       /\ n = Len(csnippets)
                       /\ r.m.log.failure /\ r.m.log.writes = <<1, 0>>
                /\ r.m.log.failure => (r.m.cs = <<>> /\ r.m.poss = poss)
                /\ csnippets = <<>> =>
                       (r.m.log.failure /\ r.m.cs = <<>> /\ r.m.poss = poss)

\* of two instances the upper has no tabstop left and the lower selects one
C17_Witness ==
    \E r \in JumpRuns :
        /\ Returned(r) /\ Len(csnippets) = 2
        /\ r.m.log.forced = <<csnippets[2].id>>
        /\ r.m.log.sel # <<>> /\ r.m.log.sel[1].id = csnippets[1].id
        /\ r.m.log.sel[1].no # 0 /\ Len(r.m.cs) = 1

\* C18 as claimed: when guess_edit, diff or the replay raises an IndexError
\* in cursor_moved, the error is swallowed, the stack is not unwound, no
\* scratch buffer is opened, and the instances and the remembered snapshot
\* are left as they were before the movement.
C18_LeftAsBefore ==
    \A r \in CursorMovedRuns :
        (Reconciles(r) /\ r.fault = "index") =>
            /\ r.m.log.exc = "swallowed" /\ ~r.m.log.scratch
            /\ r.m.cs = csnippets
            /\ r.m.lvb = lvb /\ ~r.m.log.remembered

\* C18 as amended: when guess_edit, diff or the replay raises an IndexError
\* in cursor_moved, the error is swallowed, the wrapper's failure path is not
\* taken, and the edit script of that movement is not replayed, so the spans
\* of the instances stay as they were.  The rest of cursor_moved runs as
\* usual: the containment check removes the instances that do not contain
\* the cursor, and if an instance is left the snapshot is taken anew.
C18_ReplayAbandoned ==
    \A r \in CursorMovedRuns :
        (Reconciles(r) /\ r.fault = "index") =>
            /\ r.m.log.exc = "swallowed" /\ ~r.m.log.scratch
            /\ r.m.log.replay = <<>>
            /\ r.m.log.checked
            /\ r.m.cs = SubSeq(csnippets, 1, Len(r.m.cs))
            /\ IdsOf(r.m.cs) \o Reverse(IdsOf(r.m.log.popped)) = IdsOf(csnippets)
            /\ \A i \in 1..Len(r.m.log.popped) : ~Contains(r.m.log.popped[i], r.m.cur)
            /\ r.m.cs # <<>> =>
                   /\ r.m.log.remembered
                   /\ r.m.lvb = <<[of |-> r.m.cs[1].id,
                                   first |-> r.m.cs[1].start.line,
                                   last |-> r.m.cs[1].end.line]>>
            /\ r.m.cs = <<>> => (~r.m.log.remembered /\ r.m.lvb = lvb)

\* the IndexError is swallowed with two instances active; the check then
\* removes the upper one and the snapshot is taken anew
C18_Witness ==
    \E r \in CursorMovedRuns :
        /\ Reconciles(r) /\ r.fault = "index" /\ r.m.log.exc = "swallowed"
        /\ Len(csnippets) = 2 /\ Len(r.m.log.popped) = 1
        /\ r.m.log.remembered

\* The line _jump reads decides only whether the buffer text is trimmed; no
\* field of the manager depends on it.  These are the runs of the jumps and
\* of expand on every line: inp.line is the line, inp.first whether the jump
\* is the first of the instance (the one _do_snippet makes).
JumpLineRuns ==
    UNION {Wrapped([line |-> l, first |-> FALSE], "none",
                   JumpForwards([Self EXCEPT !.line = l], "none")
                   \cup JumpBackwards([Self EXCEPT !.line = l], "none"))
           : l \in Lines}

ExpandLineRuns ==
    UNION {Wrapped([line |-> l, first |-> TRUE], "none",
                   Expand([Self EXCEPT !.line = l], inp, "none"))
           : l \in Lines, inp \in {i \in SnippetInputs(1) : i.found = "one"}}

\* C19 as claimed: a jump trims the whitespace before the cursor only if the
\* definition of the top instance has option s, the jump is the first of
\* that instance and nothing follows the cursor; later jumps never trim.
C19_TrimOnFirstJumpOnly ==
    \A r \in JumpLineRuns \cup ExpandLineRuns :
        r.m.log.trimmed =>
            (r.inp.line.s /\ r.inp.first /\ r.inp.line.after_empty)

\* C19 as amended: a jump that selects a tabstop trims the whitespace before
\* the cursor exactly when the definition of the top instance has option s,
\* nothing follows the cursor on the line and the text before the cursor
\* ends in whitespace, whether it is the first jump of the instance or a
\* later one; a jump of an instance without s never trims.
C19_TrimOnEveryJump ==
    \A r \in JumpLineRuns \cup ExpandLineRuns :
        /\ r.m.log.trimmed <=>
               /\ r.m.log.sel # <<>>
               /\ r.inp.line.s /\ r.inp.line.after_empty /\ r.inp.line.before_ws
        /\ ~r.inp.line.s => ~r.m.log.trimmed

\* a jump of an instance that is already on the stack trims, and so does the
\* first jump of an expansion
C19_Witness ==
    /\ \E r \in JumpLineRuns :
           /\ csnippets # <<>> /\ r.m.log.trimmed /\ ~r.inp.first
           /\ r.m.log.sel # <<>> /\ r.m.log.sel[1].id = Last(csnippets).id
    /\ \E r \in ExpandLineRuns : r.m.log.trimmed /\ r.m.log.push # <<>>

\* ---------------------------------------------------------------------
\* cursor_moved, lines 551-576: the lines searched for changes
\* ---------------------------------------------------------------------

MaxLines == 3
MaxCStart == 1

\* the contents a buffer line can have
LineTexts == {"x", "y"}

\* the buffer texts of at most n lines
RECURSIVE BufferTexts(_)
BufferTexts(n) ==
    IF n = 0 THEN {<<>>}
    ELSE LET shorter == BufferTexts(n - 1)
         IN  shorter \cup {Append(b, l) : b \in {s \in shorter : Len(s) = n - 1},
                                          l \in LineTexts}

\* list[i] of Python, i counted from 0, a negative i counted from the end
PyAt(list, i) == IF i < 0 THEN list[Len(list) + i + 1] ELSE list[i + 1]

\* list[a:b] of Python for 0 <= a, b <= len(list)
PySlice(list, a, b) == SubSeq(list, a + 1, b)

Max(a, b) == IF a >= b THEN a ELSE b

CutTrailing_asNoCursorTest(lt, ct, ppos_line, pos_line, initial_line, lt1, ct1) ==
    IF 0 < lt1 /\ 0 < ct1 /\ PyAt(lt, lt1 - 1) = PyAt(ct, ct1 - 1)
    THEN <<lt1 - 1, ct1 - 1>>
    ELSE <<lt1, ct1>>

\* lines 558-563: the equal lines removed from behind; lt_span[0] and
\* ct_span[0] are still 0 and initial_line is still cstart.  The result is
\* <<lt_span[1], ct_span[1]>>.
RECURSIVE CutTrailing(_, _, _, _, _, _, _)
CutTrailing(lt, ct, ppos_line, pos_line, initial_line, lt1, ct1) ==
    IF /\ PyAt(lt, lt1 - 1) = PyAt(ct, ct1 - 1)
       /\ ppos_line < initial_line + lt1 - 1
       /\ pos_line < initial_line + ct1 - 1
       /\ 0 < lt1
       /\ 0 < ct1
    THEN CutTrailing(lt, ct, ppos_line, pos_line, initial_line, lt1 - 1, ct1 - 1)
    ELSE <<lt1, ct1>>

CutLeading_asPriorOnly(lt, ct, ppos_line, pos_line, initial_line, lt0, ct0, lt1, ct1) ==
    IF /\ lt0 < lt1 /\ ct0 < ct1 /\ PyAt(lt, lt0) = PyAt(ct, ct0)
       /\ ppos_line >= initial_line /\ pos_line >= initial_line
    THEN <<lt0 + 1, ct0, initial_line + 1>>
    ELSE <<lt0, ct0, initial_line>>

\* lines 564-570: the equal lines removed from the front.  The result is
\* <<lt_span[0], ct_span[0], initial_line>>.
RECURSIVE CutLeading(_, _, _, _, _, _, _, _, _)
CutLeading(lt, ct, ppos_line, pos_line, initial_line, lt0, ct0, lt1, ct1) ==
    IF /\ lt0 < lt1
       /\ ct0 < ct1
       /\ PyAt(lt, lt0) = PyAt(ct, ct0)
       /\ ppos_line >= initial_line
       /\ pos_line >= initial_line
    THEN CutLeading(lt, ct, ppos_line, pos_line, initial_line + 1,
                    lt0 + 1, ct0 + 1, lt1, ct1)
    ELSE <<lt0, ct0, initial_line>>

\* lines 571-573: the margin given back; least is 0 for a span and cstart
\* for initial_line
Widen_asNoMargin(least, first) == first

Widen(least, first) == Max(least, first - 1)

\* lines 551-576.  cut_lt, cut_ct and cut_line are lt_span, ct_span and
\* initial_line when the two loops are over (line 570); lt_span, ct_span and
\* initial_line are their final values, lt and ct the texts handed to
\* guess_edit.
SearchedLines(lt, ct, ppos_line, pos_line, cstart) ==
    LET both == lt # <<>> /\ ct # <<>>
        behind == IF both
                  THEN CutTrailing(lt, ct, ppos_line, pos_line, cstart, Len(lt), Len(ct))
                  ELSE <<Len(lt), Len(ct)>>
        front == IF both
                 THEN CutLeading(lt, ct, ppos_line, pos_line, cstart, 0, 0,
                                 behind[1], behind[2])
                 ELSE <<0, 0, cstart>>
        lt_span == <<Widen(0, front[1]), behind[1]>>
        ct_span == <<Widen(0, front[2]), behind[2]>>
    IN  [cut_lt |-> <<front[1], behind[1]>>,
         cut_ct |-> <<front[2], behind[2]>>,
         cut_line |-> front[3],
         lt_span |-> lt_span,
         ct_span |-> ct_span,
         initial_line |-> Widen(cstart, front[3]),
         lt |-> PySlice(lt, lt_span[1], lt_span[2]),
         ct |-> PySlice(ct, ct_span[1], ct_span[2])]

TrimCalls ==
    [fn : {"cursor_moved"}, lt : BufferTexts(MaxLines), ct : BufferTexts(MaxLines),
     ppos_line : 0..(MaxCStart + MaxLines), pos_line : 0..(MaxCStart + MaxLines),
     cstart : 0..MaxCStart]

InitTrim == ManagerIdle /\ call \in TrimCalls /\ ret = NoRet

TrimAct ==
    /\ call.fn = "cursor_moved" /\ ~ret.done
    /\ ret' = [done |-> TRUE,
               rv |-> SearchedLines(call.lt, call.ct, call.ppos_line,
                                    call.pos_line, call.cstart)]
    /\ UNCHANGED <<csnippets, ctab, ignore_movements, poss, lvb, visual, cursor, call>>

NextTrim == TrimAct

SpecTrim == InitTrim /\ [][NextTrim]_vars

\* the lines removed from the front and from behind of a text of n lines
\* whose span was cut to <<first, last>>
LeadingTrimmed(cut) == cut[1]

TrailingTrimmed(cut, n) == n - cut[2]

\* C20 as claimed: the window starts one line before the first line that
\* was not trimmed when a leading line was trimmed, and it ends one line
\* after the last line that was not trimmed when a trailing line was
\* trimmed, in the prior text and in the current one.
C20_WidenedOnEachSide ==
    ret.done =>
        /\ LeadingTrimmed(ret.rv.cut_lt) >= 1 =>
               /\ ret.rv.lt_span[1] = ret.rv.cut_lt[1] - 1
               /\ ret.rv.ct_span[1] = ret.rv.cut_ct[1] - 1
        /\ TrailingTrimmed(ret.rv.cut_lt, Len(call.lt)) >= 1 =>
               /\ ret.rv.lt_span[2] = ret.rv.cut_lt[2] + 1
               /\ ret.rv.ct_span[2] = ret.rv.cut_ct[2] + 1

\* C20 as amended: the window is widened on the leading side only.  When a
\* leading line was trimmed it starts one line before the first line that
\* was not trimmed, in both texts, and the line it is anchored at is one
\* less as well; when none was trimmed it starts at the first line.  It
\* always ends with the last line that was not trimmed: no trailing line
\* that was trimmed is given back.  As many lines are trimmed from one text
\* as from the other, and the lines left out of the windows are equal in
\* the two texts.
C20_WidenedOnLeadingSide ==
    ret.done =>
        LET rv == ret.rv
            lead == LeadingTrimmed(rv.cut_lt)
            trail == TrailingTrimmed(rv.cut_lt, Len(call.lt))
        IN  /\ lead = LeadingTrimmed(rv.cut_ct)
            /\ trail = TrailingTrimmed(rv.cut_ct, Len(call.ct))
            /\ rv.cut_line = call.cstart + lead
            /\ lead >= 1 =>
                   /\ rv.lt_span[1] = lead - 1 /\ rv.ct_span[1] = lead - 1
                   /\ rv.initial_line = rv.cut_line - 1
            /\ lead = 0 =>
                   /\ rv.lt_span[1] = 0 /\ rv.ct_span[1] = 0
                   /\ rv.initial_line = call.cstart
            /\ rv.lt_span[2] = Len(call.lt) - trail
            /\ rv.ct_span[2] = Len(call.ct) - trail
            /\ rv.lt = SubSeq(call.lt, rv.lt_span[1] + 1, Len(call.lt) - trail)
            /\ rv.ct = SubSeq(call.ct, rv.ct_span[1] + 1, Len(call.ct) - trail)
            /\ SubSeq(call.lt, 1, rv.lt_span[1]) = SubSeq(call.ct, 1, rv.ct_span[1])
            /\ SubSeq(call.lt, rv.lt_span[2] + 1, Len(call.lt))
                   = SubSeq(call.ct, rv.ct_span[2] + 1, Len(call.ct))

\* a line was trimmed from the front and one from behind, around a line that
\* differs: the window holds the leading line given back and the differing
\* line, and not the trailing one
C20_Witness ==
    /\ ret.done
    /\ Len(call.lt) = 3 /\ Len(call.ct) = 3
    /\ LeadingTrimmed(ret.rv.cut_lt) = 1
    /\ TrailingTrimmed(ret.rv.cut_lt, Len(call.lt)) = 1
    /\ call.lt[2] # call.ct[2]
    /\ ret.rv.lt_span = <<0, 2>> /\ ret.rv.ct_span = <<0, 2>>
    /\ Len(ret.rv.lt) = 2

\* the place in a text anchored at line cstart of the line a cursor is on
LineIndex(line, cstart) == line - cstart

\* a window <<first, last>> of a text holds the line at place i (from 0)
Holds(span, i) == span[1] <= i /\ i < span[2]

\* C21: when the previous position of the cursor is on a line of the prior
\* text and its current position on a line of the current text, the final
\* prior window holds the line of the previous position and the final
\* current window holds the line of the current position (and the texts
\* handed on hold those lines at the places counted from initial_line).
C21_CursorLinesKept ==
    ret.done =>
        LET rv == ret.rv
            pp == LineIndex(call.ppos_line, call.cstart)
            p == LineIndex(call.pos_line, call.cstart)
        IN  (/\ 0 <= pp /\ pp < Len(call.lt)
             /\ 0 <= p /\ p < Len(call.ct)) =>
                /\ Holds(rv.lt_span, pp)
                /\ Holds(rv.ct_span, p)
                /\ rv.lt[call.ppos_line - rv.initial_line + 1] = call.lt[pp + 1]
                /\ rv.ct[call.pos_line - rv.initial_line + 1] = call.ct[p + 1]

\* lines were trimmed on both sides of the cursor, the line of the cursor
\* itself was trimmed by the leading loop and given back by the margin
C21_Witness ==
    /\ ret.done
    /\ call.lt = call.ct /\ Len(call.lt) = 3
    /\ call.ppos_line = call.cstart + 1 /\ call.pos_line = call.cstart + 1
    /\ ret.rv.cut_lt = <<2, 2>>
    /\ ret.rv.lt_span = <<1, 2>> /\ ret.rv.ct_span = <<1, 2>>

\* C22: for all texts and cursor positions, as many lines are left out of
\* the prior window as of the current one at each end, the lines left out
\* are the same in the two texts, each window satisfies
\* 0 <= start <= end <= length, initial_line is cstart plus the start of
\* the window, and so the prior text is P \o lt \o S and the current text
\* P \o ct \o S for one prefix P and one suffix S.
C22_LosslessTrimming ==
    ret.done =>
        LET rv == ret.rv
            P == SubSeq(call.lt, 1, rv.lt_span[1])
            S == SubSeq(call.lt, rv.lt_span[2] + 1, Len(call.lt))
        IN  /\ rv.lt_span[1] = rv.ct_span[1]
            /\ Len(call.lt) - rv.lt_span[2] = Len(call.ct) - rv.ct_span[2]
            /\ rv.cut_lt[1] = rv.cut_ct[1]
            /\ 0 <= rv.lt_span[1] /\ rv.lt_span[1] <= rv.lt_span[2]
            /\ rv.lt_span[2] <= Len(call.lt)
            /\ 0 <= rv.ct_span[1] /\ rv.ct_span[1] <= rv.ct_span[2]
            /\ rv.ct_span[2] <= Len(call.ct)
            /\ rv.initial_line = call.cstart + rv.lt_span[1]
            /\ \A i \in 1..rv.ct_span[1] : call.lt[i] = call.ct[i]
            /\ \A k \in 1..(Len(call.ct) - rv.ct_span[2]) :
                   call.lt[rv.lt_span[2] + k] = call.ct[rv.ct_span[2] + k]
            /\ call.lt = P \o rv.lt \o S
            /\ call.ct = P \o rv.ct \o S

\* texts of different lengths with a common line left out at the front and
\* windows that differ
C22_Witness ==
    /\ ret.done
    /\ Len(call.lt) = 3 /\ Len(call.ct) = 2
    /\ ret.rv.initial_line = call.cstart + 1
    /\ ret.rv.lt_span = <<1, 3>> /\ ret.rv.ct_span = <<1, 2>>
    /\ ret.rv.lt # ret.rv.ct

\* _try_expand, lines 789-795: the user is asked to choose when the list
\* _snips returned has neither no entry nor one
AsksUser(snippets) == Len(snippets) # 0 /\ Len(snippets) # 1

\* C23: whatever the number of filetypes of the buffer, no definition is
\* twice in the list _snips returns, and _try_expand asks the user to
\* choose exactly when two or more distinct definitions are in the list.
C23_EachDefinitionOnce ==
    ret.done =>
        /\ \A i, j \in 1..Len(ret.rv) : ret.rv[i] = ret.rv[j] => i = j
        /\ AsksUser(ret.rv) <=>
               Cardinality({ret.rv[i] : i \in 1..Len(ret.rv)}) >= 2

\* cursor_moved reconciled nothing, checked nothing and took no snapshot
NothingDone(r) ==
    /\ r.m.log.replay = <<>> /\ ~r.m.log.checked /\ ~r.m.log.remembered
    /\ r.m.log.popped = <<>>
    /\ r.m.cs = csnippets /\ r.m.lvb = lvb /\ r.m.ctab = ctab

\* C24: the flag _ignore_movements is set only by an operation that pushed
\* an instance.  A cursor_moved in insert or normal mode that finds the flag
\* set clears it and reconciles nothing, checks nothing and takes no
\* snapshot, so the flag is clear after every cursor_moved in those modes;
\* one that finds it clear makes the containment check, replays the edits
\* when the stack is not empty and takes a snapshot when the stack is not
\* empty after the check.  A cursor_moved in another mode appends the
\* position to the history and leaves the flag, the stack and the snapshot
\* as they are.  leaving_buffer and reset clear the flag.
C24_IgnoredOnce ==
    /\ \A r \in WrappedRuns \cup LeavingBufferRuns :
           (r.m.ign /\ ~ignore_movements) => r.m.log.push # <<>>
    /\ \A r \in CursorMovedRuns :
           /\ r.inp.mode \in {"i", "n"} => ~r.m.ign
           /\ (r.inp.mode \in {"i", "n"} /\ ignore_movements) =>
                  /\ NothingDone(r)
                  /\ r.m.poss = DequeAppend(poss, r.inp.to.line)
           /\ (r.inp.mode \in {"i", "n"} /\ ~ignore_movements /\ r.fault = "none") =>
                  /\ r.m.log.checked
                  /\ r.m.log.replay # <<>> <=> csnippets # <<>>
                  /\ r.m.log.remembered <=> r.m.cs # <<>>
           /\ r.inp.mode \notin {"i", "n"} =>
                  /\ NothingDone(r)
                  /\ r.m.ign = ignore_movements
                  /\ r.m.poss = DequeAppend(poss, r.inp.to.line)
    /\ \A r \in LeavingBufferRuns \cup ResetRuns : ~r.m.ign

\* after an expansion the cursor is reported outside the instance pushed, in
\* insert mode: the movement is ignored and the instance stays; the same
\* movement reported in select mode leaves the flag set
C24_Witness ==
    /\ ignore_movements /\ csnippets # <<>>
    /\ \E r \in CursorMovedRuns :
           /\ r.inp.mode = "i" /\ ~Contains(Last(csnippets), r.inp.to)
           /\ r.m.cs = csnippets /\ ~r.m.ign
    /\ \E r \in CursorMovedRuns : r.inp.mode = "s" /\ r.m.ign

\* C25: whenever cursor_moved reaches the reconciliation with a stack that
\* is not empty, a snapshot exists, it was taken of the instance that is at
\* the bottom of the stack, and the position history holds at least two
\* entries once the position of this call is appended, so the
\* reconciliation raises nothing for want of them; the history never holds
\* more than 5 positions, before or after any operation.
C25_SnapshotAndHistoryExist ==
    /\ Len(poss) <= PossMaxLen
    /\ \A r \in WrappedRuns \cup LeavingBufferRuns : Len(r.m.poss) <= PossMaxLen
    /\ \A r \in CursorMovedRuns :
           Reconciles(r) =>
               /\ lvb # <<>>
               /\ lvb[1].of = csnippets[1].id
               /\ Len(poss) >= 1
               /\ Len(DequeAppend(poss, r.inp.to.line)) >= 2
               /\ r.fault = "none" =>
                      /\ r.m.log.exc = "none"
                      /\ r.m.log.replay # <<>>
                      /\ r.m.log.replay[1].against = csnippets[1].id

\* the history is full, two instances are on the stack, and cursor_moved
\* replays the edits against the snapshot of the bottom one; the history
\* still holds 5 positions afterwards
C25_Witness ==
    /\ Len(poss) = PossMaxLen /\ Len(csnippets) = 2
    /\ \E r \in CursorMovedRuns :
           /\ Reconciles(r) /\ r.fault = "none"
           /\ r.m.log.replay # <<>>
           /\ Len(r.m.poss) = PossMaxLen

\* ---------------------------------------------------------------------
\* ask_for_users_choice (lines 75-93)
\* ---------------------------------------------------------------------

MaxCandidates == 3
MaxAnswer == 4

Descriptions == {"d1", "d2"}

\* the lists of 1 to n definitions _try_expand can hand over
CandidateLists(n) ==
    UNION {{[i \in 1..k |-> [id |-> i, description |-> f[i]]]
            : f \in [1..k -> Descriptions]} : k \in 1..n}

\* what _vim.eval("inputlist(...)") can do: raise _vim.error, give None, or
\* give the decimal string of an integer, which is '0' for 0 only and which
\* int() turns back into the integer
Answers ==
    {[kind |-> "error", r |-> 0], [kind |-> "None", r |-> 0]}
    \cup [kind : {"number"}, r : (0 - MaxAnswer)..MaxAnswer]

\* list[i] of Python: a place outside -len(list)..len(list)-1 raises
\* IndexError
PyGetItem(list, i) ==
    IF i >= Len(list) \/ i < 0 - Len(list)
    THEN [kind |-> "raised", exc |-> "IndexError"]
    ELSE [kind |-> "snippet", snippet |-> PyAt(list, i)]

\* ask_for_users_choice: the except clause catches _vim.error only
AskForUsersChoice(snippets, answer) ==
    IF answer.kind = "error" THEN [kind |-> "None"]
    ELSE IF answer.kind = "None" \/ answer.r = 0 THEN [kind |-> "None"]
    ELSE LET rv == IF answer.r > Len(snippets) THEN Len(snippets) ELSE answer.r
         IN  PyGetItem(snippets, rv - 1)

ChoiceCalls ==
    [fn : {"ask_for_users_choice"}, snippets : CandidateLists(MaxCandidates),
     answer : Answers]

InitChoice == ManagerIdle /\ call \in ChoiceCalls /\ ret = NoRet

ChoiceAct ==
    /\ call.fn = "ask_for_users_choice" /\ ~ret.done
    /\ ret' = [done |-> TRUE, rv |-> AskForUsersChoice(call.snippets, call.answer)]
    /\ UNCHANGED <<csnippets, ctab, ignore_movements, poss, lvb, visual, cursor, call>>

NextChoice == ChoiceAct

SpecChoice == InitChoice /\ [][NextChoice]_vars

\* C26: for a list of n >= 1 candidates, ask_for_users_choice raises
\* nothing and gives None or a candidate of the list: None when the host
\* raises, answers nothing, answers 0 or answers a negative number, the
\* r-th candidate for an answer r in 1..n, and the last candidate for an
\* answer above n.
C26_SelectionOrNone ==
    ret.done =>
        LET n == Len(call.snippets)
            a == call.answer
        IN  /\ ret.rv.kind # "raised"
            /\ ret.rv.kind = "snippet" =>
                   \E i \in 1..n : ret.rv.snippet = call.snippets[i]
            /\ (a.kind \in {"error", "None"} \/ a.r <= 0) => ret.rv.kind = "None"
            /\ (a.kind = "number" /\ 1 <= a.r /\ a.r <= n) =>
                   ret.rv = [kind |-> "snippet", snippet |-> call.snippets[a.r]]
            /\ (a.kind = "number" /\ a.r > n) =>
                   ret.rv = [kind |-> "snippet", snippet |-> call.snippets[n]]

====
